---- MODULE Spec2Model ----
(***************************************************************************)
(* cloudflareddns: the startup record lookup, the poll loop, the           *)
(* distributor (Channels::send) and the per-record worker tasks of         *)
(* src/src/main.rs.                                                        *)
(***************************************************************************)
EXTENDS Integers, Sequences, FiniteSets, TLC

VARIABLES
    update_upon_start, \* config.settings.update_upon_start
    mainpc,            \* where main() is: "zones", "send", "sleep", "panicked"
    zoneIdx,           \* position of `for domain in config.domains.iter()`
    lookups,           \* per zone: what get_dns_records returned ("none" before)
    responses,         \* per zone: the response get_dns_records returned
    slept,             \* number of time::sleep calls of the poll loop that are over
    addrs,             \* the Arc'ed (Option<Ipv4Addr>, Option<Ipv6Addr>), with its number
    produced,          \* number of channels.send(&addrs) calls begun
    sendIdx,           \* position of `for v in self.0.iter()` in Channels::send
    task,              \* per worker: what the spawned closure captured (domain, entry, id)
    pc,                \* per worker: "start", "recv", "retry_call", "change_call", "exited", "panicked"
    ipv6,              \* per worker: the ipv6 flag
    to_change,         \* per worker: to_change
    content,           \* per worker: update.content
    chan,              \* per worker: what the mpsc::channel(1) buffers
    recvd,             \* per worker: numbers of the snapshots recv() returned
    inflight,          \* per worker: the content of the do_update call being awaited
    ncalls,            \* per worker: number of do_update calls issued
    lastOutcome,       \* per worker: how the last do_update call ended
    lastStep,          \* per worker: which branch the last loop iteration took
    accepted           \* per worker: the content the provider last answered success = true to

vars == <<update_upon_start, mainpc, zoneIdx, lookups, responses, slept, addrs,
          produced, sendIdx, task, pc, ipv6, to_change, content, chan, recvd,
          inflight, ncalls, lastOutcome, lastStep, accepted>>

mainVars == <<update_upon_start, mainpc, zoneIdx, lookups, responses, slept, addrs,
              produced, sendIdx>>

(***************************************************************************)
(* Bounds                                                                  *)
(***************************************************************************)
\* number of snapshots the poll loop produces before the model stops it
MaxPolls == 3

(***************************************************************************)
(* Option, addresses and their text                                        *)
(***************************************************************************)
None == <<>>
Some(x) == <<x>>
IsSome(o) == o # <<>>
Unwrap(o) == o[1]

RECURSIVE JoinWith(_, _)
JoinWith(parts, sep) ==
    IF Len(parts) = 0 THEN ""
    ELSE IF Len(parts) = 1 THEN parts[1]
    ELSE parts[1] \o sep \o JoinWith(Tail(parts), sep)

\* Ipv4Addr::to_string: the four octets in decimal, separated by dots
Ipv4ToString(a) == JoinWith([i \in 1..4 |-> ToString(a[i])], ".")

HexDigits == <<"0", "1", "2", "3", "4", "5", "6", "7",
               "8", "9", "a", "b", "c", "d", "e", "f">>

RECURSIVE Hex(_)
Hex(n) == IF n < 16 THEN HexDigits[n + 1]
          ELSE Hex(n \div 16) \o HexDigits[(n % 16) + 1]

\* Ipv6Addr::to_string for an address with no run of zero segments: the eight
\* segments in lower-case hexadecimal without leading zeros, separated by colons
Ipv6ToString(a) == JoinWith([i \in 1..8 |-> Hex(a[i])], ":")

\* what public_ip::addr_v4() can return
V4Results == {None, Some(<<203, 0, 113, 9>>), Some(<<198, 51, 100, 7>>)}
\* what public_ip::addr_v6() can return
V6Results == {None, Some(<<8193, 3512, 1, 2, 3, 4, 5, 26>>)}

(***************************************************************************)
(* Configuration (Config.toml) and the provider's records                  *)
(***************************************************************************)
Entry(n, t) == [name |-> n, ttl |-> 1, record_type |-> t]

Domains == <<
    [zone_id |-> "z1", api_key |-> "k1",
     entries |-> << Entry("home.example.com", "A"),
                    Entry("c.example.com", "A"),
                    Entry("mail.example.com", "MX") >>],
    [zone_id |-> "z2", api_key |-> "k2",
     entries |-> << Entry("v6.example.net", "AAAA") >>] >>

DnsRecord(n, i, t) == [name |-> n, id |-> i, record_type |-> t]

\* the record lists the provider can answer a zone's lookup with
RecordLists(zone_id) ==
    IF zone_id = "z1"
    THEN { << DnsRecord("home.example.com", "id1", "A"),
              DnsRecord("mail.example.com", "id3", "A"),
              DnsRecord("c.example.com", "id4", "TXT") >>,
           << DnsRecord("home.example.com", "id1", "A"),
              DnsRecord("home.example.com", "id2", "AAAA"),
              DnsRecord("mail.example.com", "id3", "A"),
              DnsRecord("c.example.com", "id4", "TXT") >> }
    ELSE { << DnsRecord("v6.example.net", "id5", "AAAA") >> }

CloudFlareError == [code |-> 7003, message |-> "Could not route"]

\* Result<Response, reqwest::Error> of do_update, with the body that does not
\* deserialize ("BadBody") as a third case
UpdateResults ==
    { [kind |-> "Err", success |-> FALSE, errors |-> <<>>],
      [kind |-> "BadBody", success |-> FALSE, errors |-> <<>>],
      [kind |-> "Ok", success |-> TRUE, errors |-> <<>>],
      [kind |-> "Ok", success |-> FALSE, errors |-> <<CloudFlareError>>],
      [kind |-> "Ok", success |-> FALSE, errors |-> <<>>] }

\* Result<ExtendedResponse<Vec<DnsRecord>>, reqwest::Error> of get_dns_records
LookupResults(zone_id) ==
    { [kind |-> "Err", success |-> FALSE, errors |-> <<>>, result |-> <<>>],
      [kind |-> "BadBody", success |-> FALSE, errors |-> <<>>, result |-> <<>>],
      [kind |-> "Ok", success |-> FALSE, errors |-> <<CloudFlareError>>, result |-> <<>>],
      [kind |-> "Ok", success |-> FALSE, errors |-> <<>>, result |-> <<>>] }
    \cup { [kind |-> "Ok", success |-> TRUE, errors |-> <<>>, result |-> r] :
           r \in RecordLists(zone_id) }

(***************************************************************************)
(* Startup: record identifier resolution and worker spawning               *)
(***************************************************************************)
IsAddressRecord(v) == v.record_type = "A" \/ v.record_type = "AAAA"

\* HashMap::from_iter(result.filter(A or AAAA).map((name, id))).get(name):
\* the id of the last kept record of that name
MapGet(result, name) ==
    LET kept == SelectSeq(result, IsAddressRecord)
        hits == {i \in 1..Len(kept) : kept[i].name = name}
    IN  IF hits = {} THEN None
        ELSE Some(kept[CHOOSE i \in hits : \A j \in hits : j <= i].id)

\* SpawnEntries leaving the entry loop at the first name the map does not hold
RECURSIVE SpawnEntriesStopAtMiss(_, _, _)
SpawnEntriesStopAtMiss(domain, entries, result) ==
    IF entries = <<>> THEN <<>>
    ELSE LET entry == Head(entries)
             id == MapGet(result, entry.name)
         IN  IF IsSome(id)
             THEN <<[zone_id |-> domain.zone_id, api_key |-> domain.api_key,
                     id |-> Unwrap(id), entry |-> entry]>>
                  \o SpawnEntriesStopAtMiss(domain, Tail(entries), result)
             ELSE <<>>

\* the entry loop of one zone: the closures spawned, in entry order; an entry
\* whose name the map does not hold is skipped
RECURSIVE SpawnEntries(_, _, _)
SpawnEntries(domain, entries, result) ==
    IF entries = <<>> THEN <<>>
    ELSE LET entry == Head(entries)
             id == MapGet(result, entry.name)
             rest == SpawnEntries(domain, Tail(entries), result)
         IN  IF IsSome(id)
             THEN <<[zone_id |-> domain.zone_id, api_key |-> domain.api_key,
                     id |-> Unwrap(id), entry |-> entry]>> \o rest
             ELSE rest

\* v.response.errors[0] on an empty list, or v.json().await.unwrap() on a body
\* that is not the expected JSON
Panics(res) ==
    \/ res.kind = "BadBody"
    \/ res.kind = "Ok" /\ ~res.success /\ res.errors = <<>>

\* the zone the loop goes on with after `Err(e) => { ...; break; }`
ZoneAfterErr(i) == Len(Domains) + 1

\* the zone the loop goes on with after a zone is done or `continue`d
ZoneAfterOk(i) == i + 1

\* LeaveZones without the test of update_upon_start
LeaveZonesAlwaysSends ==
    /\ mainpc' = "send"
    /\ sendIdx' = 1
    /\ produced' = produced + 1
    /\ addrs' = [addrs EXCEPT !.seq = produced + 1]

\* main() past the zone loop: `if config.settings.update_upon_start
\* { channels.send(&addrs).await; }`, then the loop's sleep
LeaveZones ==
    IF update_upon_start
    THEN /\ mainpc' = "send"
         /\ sendIdx' = 1
         /\ produced' = produced + 1
         /\ addrs' = [addrs EXCEPT !.seq = produced + 1]
    ELSE /\ mainpc' = "sleep"
         /\ UNCHANGED <<sendIdx, produced, addrs>>

Spawn(new) ==
    /\ task' = task \o new
    /\ pc' = pc \o [i \in 1..Len(new) |-> "start"]
    /\ ipv6' = ipv6 \o [i \in 1..Len(new) |-> FALSE]
    /\ to_change' = to_change \o [i \in 1..Len(new) |-> FALSE]
    /\ content' = content \o [i \in 1..Len(new) |-> ""]
    /\ chan' = chan \o [i \in 1..Len(new) |-> <<>>]
    /\ recvd' = recvd \o [i \in 1..Len(new) |-> <<>>]
    /\ inflight' = inflight \o [i \in 1..Len(new) |-> None]
    /\ ncalls' = ncalls \o [i \in 1..Len(new) |-> 0]
    /\ lastOutcome' = lastOutcome \o [i \in 1..Len(new) |-> "none"]
    /\ lastStep' = lastStep \o [i \in 1..Len(new) |-> "none"]
    /\ accepted' = accepted \o [i \in 1..Len(new) |-> None]

\* one iteration of `for domain in config.domains.iter()`
ResolveZone ==
    /\ mainpc = "zones"
    /\ zoneIdx <= Len(Domains)
    /\ \E res \in LookupResults(Domains[zoneIdx].zone_id) :
        /\ lookups' = [lookups EXCEPT ![zoneIdx] = res.kind]
        /\ responses' = [responses EXCEPT ![zoneIdx] = res]
        /\ IF Panics(res)
           THEN /\ mainpc' = "panicked"
                /\ Spawn(<<>>)
                /\ UNCHANGED <<zoneIdx, sendIdx, produced, addrs>>
           ELSE LET next == IF res.kind = "Err" THEN ZoneAfterErr(zoneIdx)
                            ELSE ZoneAfterOk(zoneIdx)
                    new == IF res.kind = "Ok" /\ res.success
                           THEN SpawnEntries(Domains[zoneIdx],
                                             Domains[zoneIdx].entries, res.result)
                           ELSE <<>>
                IN  /\ zoneIdx' = next
                    /\ Spawn(new)
                    /\ IF next > Len(Domains)
                       THEN LeaveZones
                       ELSE UNCHANGED <<mainpc, sendIdx, produced, addrs>>
    /\ UNCHANGED <<update_upon_start, slept>>

(***************************************************************************)
(* Distributor (Channels::send) and poll loop                              *)
(***************************************************************************)
Workers == 1..Len(task)

\* the worker task has ended and dropped its Receiver: the channel is closed
Terminated(w) == pc[w] \in {"exited", "panicked"}

Live(w) == ~Terminated(w)

\* the capacity of mpsc::channel(1)
ChannelCapacity == 1

\* Send as try_send would do it: a full slot loses the value instead of blocking
SendDropping(w, v) ==
    IF Terminated(w) THEN [done |-> TRUE, buf |-> chan[w]]
    ELSE IF Len(chan[w]) < ChannelCapacity
    THEN [done |-> TRUE, buf |-> Append(chan[w], v)]
    ELSE [done |-> TRUE, buf |-> chan[w]]

\* Send with a closed channel treated like an open one that nobody drains
SendIgnoringClosed(w, v) ==
    IF Len(chan[w]) < ChannelCapacity
    THEN [done |-> TRUE, buf |-> Append(chan[w], v)]
    ELSE [done |-> FALSE, buf |-> chan[w]]

\* Send on an unbounded channel: it never waits for a slot
SendUnbounded(w, v) ==
    IF Terminated(w) THEN [done |-> TRUE, buf |-> chan[w]]
    ELSE [done |-> TRUE, buf |-> Append(chan[w], v)]

\* Sender::send(v).await on worker w's channel: Err at once when the channel is
\* closed (ignored by `let _ =`), the value buffered when a slot is free, and
\* otherwise not complete yet
Send(w, v) ==
    IF Terminated(w) THEN [done |-> TRUE, buf |-> chan[w]]
    ELSE IF Len(chan[w]) < ChannelCapacity
    THEN [done |-> TRUE, buf |-> Append(chan[w], v)]
    ELSE [done |-> FALSE, buf |-> chan[w]]

\* one iteration of `for v in self.0.iter() { let _ = v.send(value.clone()).await; }`
SendOne ==
    /\ mainpc = "send"
    /\ sendIdx <= Len(chan)
    /\ Send(sendIdx, addrs).done
    /\ chan' = [chan EXCEPT ![sendIdx] = Send(sendIdx, addrs).buf]
    /\ sendIdx' = sendIdx + 1
    /\ UNCHANGED <<update_upon_start, mainpc, zoneIdx, lookups, responses, slept,
                   addrs, produced, task, pc, ipv6, to_change, content, recvd,
                   inflight, ncalls, lastOutcome, lastStep, accepted>>

\* Channels::send returns; main() goes (back) to time::sleep
SendDone ==
    /\ mainpc = "send"
    /\ sendIdx > Len(chan)
    /\ mainpc' = "sleep"
    /\ UNCHANGED <<update_upon_start, zoneIdx, lookups, responses, slept, addrs,
                   produced, sendIdx, task, pc, ipv6, to_change, content, chan,
                   recvd, inflight, ncalls, lastOutcome, lastStep, accepted>>

\* the sleep ends, both probes are made, and channels.send(&addrs) begins
Poll ==
    /\ mainpc = "sleep"
    /\ produced < MaxPolls
    /\ \E v4 \in V4Results, v6 \in V6Results :
           addrs' = [v4 |-> v4, v6 |-> v6, seq |-> produced + 1]
    /\ produced' = produced + 1
    /\ mainpc' = "send"
    /\ sendIdx' = 1
    /\ slept' = slept + 1
    /\ UNCHANGED <<update_upon_start, zoneIdx, lookups, responses,
                   task, pc, ipv6, to_change, content, chan, recvd, inflight,
                   ncalls, lastOutcome, lastStep, accepted>>

(***************************************************************************)
(* Record worker (the spawned task)                                        *)
(***************************************************************************)
ProperType(t) == t = "AAAA" \/ t = "A"

\* the closure's first statement: the ipv6 flag, or `return` on an improper type
WorkerStart(w) ==
    /\ mainpc # "panicked"
    /\ pc[w] = "start"
    /\ IF ProperType(task[w].entry.record_type)
       THEN /\ pc' = [pc EXCEPT ![w] = "recv"]
            /\ ipv6' = [ipv6 EXCEPT ![w] = (task[w].entry.record_type = "AAAA")]
            /\ chan' = chan
       ELSE /\ pc' = [pc EXCEPT ![w] = "exited"]
            /\ ipv6' = ipv6
            /\ chan' = [chan EXCEPT ![w] = <<>>]
    /\ UNCHANGED <<mainVars, task, to_change, content, recvd, inflight, ncalls,
                   lastOutcome, lastStep, accepted>>

\* SelectAddr with the two families swapped
SelectAddrSwapped(is6, v) ==
    IF is6
    THEN IF IsSome(v.v4) THEN Some(Ipv4ToString(Unwrap(v.v4))) ELSE None
    ELSE IF IsSome(v.v6) THEN Some(Ipv6ToString(Unwrap(v.v6))) ELSE None

\* `let addr = if ipv6 { match v.1 ... } else { match v.0 ... }`: the text of
\* the address of the worker's family, None for `continue`
SelectAddr(is6, v) ==
    IF is6
    THEN IF IsSome(v.v6) THEN Some(Ipv6ToString(Unwrap(v.v6))) ELSE None
    ELSE IF IsSome(v.v4) THEN Some(Ipv4ToString(Unwrap(v.v4))) ELSE None

\* RetryDue without the test of to_change
RetryDueNever(tc, addr) == FALSE

\* RetryDue with the address selected first: no retry on an absent family
RetryDueIfPresent(tc, addr) == tc /\ IsSome(addr)

\* `if to_change`: the retry is made before the address is looked at
RetryDue(tc, addr) == tc

\* Changed without the comparison
ChangedAlways(addr, cur) == TRUE

\* `if addr != update.content`
Changed(addr, cur) == Unwrap(addr) # cur

\* one iteration of `while let Some(v) = recv.recv().await`, up to the
\* do_update call it awaits or its `continue`
WorkerRecv(w) ==
    /\ mainpc # "panicked"
    /\ pc[w] = "recv"
    /\ chan[w] # <<>>
    /\ LET v == Head(chan[w])
           addr == SelectAddr(ipv6[w], v)
       IN  /\ chan' = [chan EXCEPT ![w] = Tail(chan[w])]
           /\ recvd' = [recvd EXCEPT ![w] = Append(recvd[w], v.seq)]
           /\ IF RetryDue(to_change[w], addr)
              THEN /\ lastStep' = [lastStep EXCEPT ![w] = "retry"]
                   /\ pc' = [pc EXCEPT ![w] = "retry_call"]
                   /\ inflight' = [inflight EXCEPT ![w] = Some(content[w])]
                   /\ ncalls' = [ncalls EXCEPT ![w] = ncalls[w] + 1]
                   /\ content' = content
              ELSE IF IsSome(addr) /\ Changed(addr, content[w])
              THEN /\ lastStep' = [lastStep EXCEPT ![w] = "change"]
                   /\ content' = [content EXCEPT ![w] = Unwrap(addr)]
                   /\ pc' = [pc EXCEPT ![w] = "change_call"]
                   /\ inflight' = [inflight EXCEPT ![w] = Some(Unwrap(addr))]
                   /\ ncalls' = [ncalls EXCEPT ![w] = ncalls[w] + 1]
              ELSE /\ lastStep' = [lastStep EXCEPT ![w] =
                                       IF IsSome(addr) THEN "same" ELSE "absent"]
                   /\ UNCHANGED <<pc, inflight, ncalls, content>>
    /\ UNCHANGED <<mainVars, task, ipv6, to_change, lastOutcome, accepted>>

\* ToChangeAfterRetry clearing the flag only when the provider reports success
ToChangeAfterRetryOnSuccess(tc, res) ==
    IF res.kind = "Ok" /\ res.success THEN FALSE ELSE tc

\* to_change after the retry's do_update returned res without a panic
ToChangeAfterRetry(tc, res) == IF res.kind = "Ok" THEN FALSE ELSE tc

\* ToChangeAfterChange without `to_change = true`
ToChangeAfterChangeForgets(tc, res) == tc

\* to_change after the changed address's do_update returned res without a panic
ToChangeAfterChange(tc, res) == IF res.kind = "Err" THEN TRUE ELSE tc

\* how a do_update call ended, as the worker's log lines tell
OutcomeOf(res) ==
    IF res.kind = "Err" THEN "transport"
    ELSE IF res.kind = "BadBody" THEN "badbody"
    ELSE IF res.success THEN "success" ELSE "rejected"

\* what the provider holds for the record after it answered res to a PUT of
\* content sent: the new content when it reports success
AcceptedAfter(cur, sent, res) ==
    IF res.kind = "Ok" /\ res.success THEN sent ELSE cur

\* the awaited do_update call returns (or panics), and the match on its result
WorkerReturn(w) ==
    /\ mainpc # "panicked"
    /\ pc[w] \in {"retry_call", "change_call"}
    /\ \E res \in UpdateResults :
        /\ lastOutcome' = [lastOutcome EXCEPT ![w] = OutcomeOf(res)]
        /\ inflight' = [inflight EXCEPT ![w] = None]
        /\ accepted' = [accepted EXCEPT ![w] = AcceptedAfter(accepted[w], inflight[w], res)]
        /\ IF Panics(res)
           THEN /\ pc' = [pc EXCEPT ![w] = "panicked"]
                /\ chan' = [chan EXCEPT ![w] = <<>>]
                /\ to_change' = to_change
           ELSE /\ pc' = [pc EXCEPT ![w] = "recv"]
                /\ chan' = chan
                /\ to_change' = [to_change EXCEPT ![w] =
                       IF pc[w] = "retry_call"
                       THEN ToChangeAfterRetry(to_change[w], res)
                       ELSE ToChangeAfterChange(to_change[w], res)]
    /\ UNCHANGED <<mainVars, task, ipv6, content, recvd, ncalls, lastStep>>

(***************************************************************************)
(* Specification                                                           *)
(***************************************************************************)
\* no response yet
NoResponse == [kind |-> "none", success |-> FALSE, errors |-> <<>>, result |-> <<>>]

\* main() after the configuration is read and the startup probes are made
Init ==
    /\ update_upon_start \in BOOLEAN
    /\ mainpc = "zones"
    /\ zoneIdx = 1
    /\ lookups = [i \in 1..Len(Domains) |-> "none"]
    /\ responses = [i \in 1..Len(Domains) |-> NoResponse]
    /\ slept = 0
    /\ \E v4 \in V4Results, v6 \in V6Results :
           addrs = [v4 |-> v4, v6 |-> v6, seq |-> 0]
    /\ produced = 0
    /\ sendIdx = 1
    /\ task = <<>>
    /\ pc = <<>>
    /\ ipv6 = <<>>
    /\ to_change = <<>>
    /\ content = <<>>
    /\ chan = <<>>
    /\ recvd = <<>>
    /\ inflight = <<>>
    /\ ncalls = <<>>
    /\ lastOutcome = <<>>
    /\ lastStep = <<>>
    /\ accepted = <<>>

Next ==
    \/ ResolveZone
    \/ SendOne
    \/ SendDone
    \/ Poll
    \/ \E w \in Workers : WorkerStart(w)
    \/ \E w \in Workers : WorkerRecv(w)
    \/ \E w \in Workers : WorkerReturn(w)

Spec == Init /\ [][Next]_vars

(***************************************************************************)
(* Properties                                                              *)
(***************************************************************************)
\* the address of worker w's family in snapshot v, by the entry's record kind
FamilyOf(w, v) == IF task[w].entry.record_type = "AAAA" THEN v.v6 ELSE v.v4

\* its text
FamilyText(w, v) ==
    IF task[w].entry.record_type = "AAAA"
    THEN Ipv6ToString(Unwrap(v.v6))
    ELSE Ipv4ToString(Unwrap(v.v4))

\* this step is worker w taking the snapshot at the head of its channel
Took(w) == Len(recvd'[w]) = Len(recvd[w]) + 1

\* this step is the end of worker w's do_update call
Returned(w) == IsSome(inflight[w]) /\ inflight'[w] = None

\* worker w issues no do_update call in this step and keeps its state
Ignored(w) ==
    /\ ncalls'[w] = ncalls[w]
    /\ inflight'[w] = None
    /\ pc'[w] = "recv"
    /\ content'[w] = content[w]
    /\ to_change'[w] = to_change[w]

\* worker w issues exactly one do_update call in this step, with content c
IssuedOne(w, c) ==
    /\ ncalls'[w] = ncalls[w] + 1
    /\ inflight'[w] = Some(c)
    /\ pc'[w] \in {"retry_call", "change_call"}

\* the last snapshot worker w took is the one main() still holds in addrs
TookLatest(w) == recvd[w] # <<>> /\ recvd[w][Len(recvd[w])] = addrs.seq

\* C1: an Idle worker (to_change false) that takes a snapshot whose address of
\* its family is present and equal to update.content issues no do_update call
\* and leaves update.content and to_change as they were.
C1_IdleSameAddressNoCall ==
    [][\A w \in Workers :
          (/\ Took(w)
           /\ ~to_change[w]
           /\ IsSome(FamilyOf(w, Head(chan[w])))
           /\ FamilyText(w, Head(chan[w])) = content[w])
          => Ignored(w)]_vars

\* an Idle worker has taken a second snapshot with the address it already pushed
C1_Witness ==
    \E w \in Workers :
        /\ lastStep[w] = "same"
        /\ pc[w] = "recv" /\ ~to_change[w]
        /\ ncalls[w] = 1 /\ Len(recvd[w]) >= 2
        /\ TookLatest(w)
        /\ IsSome(FamilyOf(w, addrs)) /\ FamilyText(w, addrs) = content[w]

\* C2: an Idle worker that takes a snapshot whose address of its family is
\* present and differs from update.content (the initial empty string included)
\* sets update.content to that address and issues exactly one do_update call
\* with that address as content.
C2_IdleChangedAddressOneCall ==
    [][\A w \in Workers :
          (/\ Took(w)
           /\ ~to_change[w]
           /\ IsSome(FamilyOf(w, Head(chan[w])))
           /\ FamilyText(w, Head(chan[w])) # content[w])
          => /\ content'[w] = FamilyText(w, Head(chan[w]))
             /\ IssuedOne(w, FamilyText(w, Head(chan[w])))]_vars

\* a worker that pushed one address before is awaiting the push of another one
C2_Witness ==
    \E w \in Workers :
        /\ lastStep[w] = "change"
        /\ pc[w] = "change_call"
        /\ ncalls[w] = 2
        /\ TookLatest(w)
        /\ IsSome(FamilyOf(w, addrs))
        /\ content[w] = FamilyText(w, addrs)
        /\ inflight[w] = Some(content[w])

\* C3: a do_update call that ends in a transport failure leaves the worker
\* Retrying (to_change true) with update.content the content of the failed
\* call; a Retrying worker that takes a snapshot carrying an address of its
\* family issues exactly one do_update call with the unchanged update.content,
\* not with the snapshot's address.
C3_TransportFailureRetriesSameContent ==
    [][\A w \in Workers :
          /\ (Returned(w) /\ lastOutcome'[w] = "transport")
               => /\ pc'[w] = "recv"
                  /\ to_change'[w]
                  /\ content'[w] = Unwrap(inflight[w])
          /\ (Took(w) /\ to_change[w] /\ IsSome(FamilyOf(w, Head(chan[w]))))
               => /\ IssuedOne(w, content[w])
                  /\ content'[w] = content[w]]_vars

\* a worker is retrying its failed content on a snapshot that carries another address
C3_Witness ==
    \E w \in Workers :
        /\ lastStep[w] = "retry"
        /\ pc[w] = "retry_call"
        /\ lastOutcome[w] = "transport"
        /\ TookLatest(w)
        /\ IsSome(FamilyOf(w, addrs))
        /\ FamilyText(w, addrs) # content[w]
        /\ inflight[w] = Some(content[w])

\* C4: a retry's do_update call that completes at transport level (the response
\* reports success or not) returns the worker to Idle; one that fails at
\* transport level leaves it Retrying.
C4_RetryReturnsToIdle ==
    [][\A w \in Workers :
          (Returned(w) /\ pc[w] = "retry_call")
          => /\ lastOutcome'[w] \in {"success", "rejected"}
                  => (pc'[w] = "recv" /\ ~to_change'[w])
             /\ lastOutcome'[w] = "transport"
                  => (pc'[w] = "recv" /\ to_change'[w])]_vars

\* C5 as stated: a snapshot without the worker's family is ignored, in Idle
\* and in Retrying alike.
C5_AbsentFamilyIgnoredAlways ==
    [][\A w \in Workers :
          (Took(w) /\ ~IsSome(FamilyOf(w, Head(chan[w])))) => Ignored(w)]_vars

\* C5, amended: an Idle worker ignores a snapshot without its family; a
\* Retrying worker does not: it issues the retry's do_update call with the
\* unchanged update.content.
C5_AbsentFamilyIgnoredWhenIdle ==
    [][\A w \in Workers :
          (Took(w) /\ ~IsSome(FamilyOf(w, Head(chan[w]))))
          => IF to_change[w]
             THEN IssuedOne(w, content[w]) /\ content'[w] = content[w]
             ELSE Ignored(w)]_vars

\* on a snapshot without either family, one worker has ignored it in Idle and
\* another is retrying
C5_Witness ==
    \E w1, w2 \in Workers :
        /\ ~IsSome(FamilyOf(w1, addrs)) /\ ~IsSome(FamilyOf(w2, addrs))
        /\ TookLatest(w1) /\ TookLatest(w2)
        /\ lastStep[w1] = "absent" /\ pc[w1] = "recv" /\ ~to_change[w1]
        /\ lastStep[w2] = "retry" /\ pc[w2] = "retry_call" /\ to_change[w2]

\* C6 as stated: at rest between two snapshots, to_change is true exactly when
\* the last attempted push has not been confirmed successful by the provider
\* (false before any push).
C6_PendingIffNotConfirmed ==
    \A w \in Workers :
        pc[w] = "recv" => (to_change[w] <=> lastOutcome[w] \notin {"none", "success"})

\* C6, amended: at rest between two snapshots, to_change is true exactly when
\* the last attempted push ended in a transport failure.
C6_PendingIffTransportFailure ==
    \A w \in Workers :
        pc[w] = "recv" => (to_change[w] <=> lastOutcome[w] = "transport")

\* a worker is Idle although the provider rejected its last push, and another
\* is Retrying after a transport failure
C6_Witness ==
    \E w1, w2 \in Workers :
        /\ pc[w1] = "recv" /\ ~to_change[w1] /\ lastOutcome[w1] = "rejected"
        /\ pc[w2] = "recv" /\ to_change[w2] /\ lastOutcome[w2] = "transport"

\* the number of snapshots whose delivery to worker w is over
Delivered(w) ==
    IF mainpc = "send" /\ sendIdx <= w THEN produced - 1 ELSE produced

\* C7: for every live worker, the snapshots it has taken followed by the one
\* its channel buffers are exactly the snapshots delivered to it so far, each
\* once and in the order they were produced.
C7_EachSnapshotOnceInOrder ==
    \A w \in Workers :
        Live(w) =>
            recvd[w] \o [i \in 1..Len(chan[w]) |-> chan[w][i].seq]
                = [i \in 1..Delivered(w) |-> i]

\* a worker has taken three snapshots while another, awaiting a provider call,
\* has taken fewer and has the next one buffered
C7_Witness ==
    \E w1, w2 \in Workers :
        /\ Len(recvd[w1]) >= 3
        /\ pc[w2] \in {"retry_call", "change_call"}
        /\ Len(recvd[w2]) < Len(recvd[w1])
        /\ chan[w2] # <<>>

\* C8: a worker terminates only when its record kind is neither A nor AAAA,
\* and then before taking any snapshot (whatever the provider answers: a
\* transport failure, success = true, success = false with any error list).
C8_TerminatesOnlyOnImproperType ==
    \A w \in Workers :
        (Terminated(w) /\ lastOutcome[w] # "badbody")
        => (~ProperType(task[w].entry.record_type) /\ recvd[w] = <<>>)

\* C9: a send to a terminated worker's channel completes at once and buffers
\* nothing, so the distributor is never blocked on a terminated worker, and
\* the live workers registered after it are delivered every snapshot.
C9_TerminatedWorkerNeverBlocks ==
    /\ [](\A w \in Workers :
            (mainpc = "send" /\ sendIdx = w /\ Terminated(w)) => ENABLED SendOne)
    /\ [][\A w \in Workers :
            (mainpc = "send" /\ sendIdx = w /\ Terminated(w) /\ sendIdx' # sendIdx)
            => (chan' = chan /\ sendIdx' = w + 1 /\ mainpc' = "send")]_vars
    /\ [](\A w, v \in Workers :
            (Terminated(w) /\ Live(v) /\ mainpc = "sleep")
            => Len(recvd[v]) + Len(chan[v]) = produced)

\* two cycles are over with a terminated worker registered before a live one,
\* which has taken both snapshots
C9_Witness ==
    \E w, v \in Workers :
        /\ w < v
        /\ Terminated(w) /\ Live(v)
        /\ mainpc = "sleep" /\ produced >= 2
        /\ Len(recvd[v]) = produced

\* C10: once startup is over, a transport failure of one zone's lookup has not
\* kept any other zone, before or after it, from being looked up.
C10_LookupFailureAbortsOneZone ==
    mainpc \in {"send", "sleep"} =>
        \A i, j \in 1..Len(Domains) :
            (lookups[j] = "Err" /\ i # j) => lookups[i] # "none"

\* the entries of the workers spawned for zone i, in spawning order
SpawnedFor(i) ==
    LET mine == SelectSeq(task, LAMBDA t : t.zone_id = Domains[i].zone_id)
    IN  [k \in 1..Len(mine) |-> mine[k].entry]

\* the provider's response for zone i names an A or AAAA record called n
NameFound(i, n) ==
    \E k \in 1..Len(responses[i].result) :
        /\ responses[i].result[k].record_type \in {"A", "AAAA"}
        /\ responses[i].result[k].name = n

\* C11: for every zone whose lookup succeeded, the workers spawned are, in
\* entry order, exactly the entries whose name is the name of an A or AAAA
\* record of the response: an entry without a match spawns nothing and does
\* not stop the entries after it.
C11_SpawnedIffNameFound ==
    \A i \in 1..Len(Domains) :
        (responses[i].kind = "Ok" /\ responses[i].success)
        => SpawnedFor(i) = SelectSeq(Domains[i].entries,
                                     LAMBDA e : NameFound(i, e.name))

\* a zone's lookup succeeded, one of its entries was not found and an entry
\* after that one has a worker
C11_Witness ==
    \E i \in 1..Len(Domains) :
        /\ responses[i].kind = "Ok" /\ responses[i].success
        /\ \E a, b \in 1..Len(Domains[i].entries) :
              /\ a < b
              /\ ~NameFound(i, Domains[i].entries[a].name)
              /\ \E k \in 1..Len(SpawnedFor(i)) :
                    SpawnedFor(i)[k] = Domains[i].entries[b]

\* C12: no outcome of a remote call of the resolution or of an update (a
\* transport failure, or a response with success = false and any error list)
\* ends main(): the poll loop is never left.
C12_RemoteOutcomeNeverEndsProcess ==
    mainpc = "panicked" => \E i \in 1..Len(Domains) : lookups[i] = "BadBody"

\* C13 as stated: each delivery is a rendezvous, so a live worker the
\* distributor has delivered to has taken every snapshot delivered to it.
C13_DeliveryIsRendezvous ==
    \A w \in Workers : Live(w) => Len(recvd[w]) = Delivered(w)

\* C13, amended: the distributor delivers in registration order, and a delivery
\* to a worker is the snapshot being put into the worker's empty slot, which
\* needs the worker to have taken every earlier snapshot but not this one;
\* the distributor then goes on to the next worker.
C13_InOrderIntoFreeSlot ==
    [][/\ sendIdx' # sendIdx
          => \/ sendIdx' = sendIdx + 1 /\ mainpc = "send"
             \/ sendIdx' = 1 /\ mainpc # "send"
       /\ \A w \in Workers :
            Len(chan'[w]) > Len(chan[w])
            => /\ mainpc = "send" /\ sendIdx = w /\ sendIdx' = w + 1
               /\ chan[w] = <<>> /\ chan'[w] = <<addrs>>
               /\ Len(recvd[w]) = addrs.seq - 1
               /\ \A v \in Workers \ {w} : chan'[v] = chan[v]]_vars

\* the distributor has gone on to a later worker while an earlier one, busy
\* with a provider call, has not taken the snapshot delivered to it
C13_Witness ==
    \E w, v \in Workers :
        /\ w < v
        /\ mainpc = "send" /\ sendIdx > v
        /\ pc[w] \in {"retry_call", "change_call"}
        /\ chan[w] = <<addrs>>
        /\ Live(v) /\ TookLatest(v)

\* the number of snapshots sent before the poll loop
AtStart == IF update_upon_start THEN 1 ELSE 0

\* C14: with update_upon_start every live worker is delivered exactly one
\* snapshot before the poll loop's first sleep; without it no worker is
\* delivered a snapshot and no do_update call is made before the first sleep
\* is over. After that, one snapshot is produced and forwarded per sleep.
C14_OneSnapshotAtStartThenOnePerInterval ==
    /\ mainpc \in {"send", "sleep"} => produced = AtStart + slept
    /\ mainpc = "zones" => (produced = 0 /\ slept = 0)
    /\ slept = 0 =>
         \A w \in Workers :
             /\ Len(recvd[w]) + Len(chan[w]) <= AtStart
             /\ ~update_upon_start => (ncalls[w] = 0 /\ inflight[w] = None)
             /\ (mainpc = "sleep" /\ Live(w))
                  => Len(recvd[w]) + Len(chan[w]) = AtStart
    /\ mainpc = "sleep" =>
         \A w \in Workers : Live(w) => Len(recvd[w]) + Len(chan[w]) = produced

\* with update_upon_start, main() is in its first sleep and a worker has
\* taken the startup snapshot and issued its first do_update call
C14_Witness ==
    /\ update_upon_start
    /\ mainpc = "sleep" /\ slept = 0
    /\ \E w \in Workers : Live(w) /\ recvd[w] = <<1>> /\ ncalls[w] = 1


\* C15: when an Idle worker's push of a changed address is answered with
\* success = false, the worker stays Idle with update.content the rejected
\* address; an Idle worker that takes a snapshot carrying update.content
\* issues no do_update call.
C15_RejectedContentNotPushedAgain ==
    [][\A w \in Workers :
          /\ (Returned(w) /\ pc[w] = "change_call" /\ lastOutcome'[w] = "rejected")
               => /\ pc'[w] = "recv" /\ ~to_change'[w]
                  /\ content'[w] = Unwrap(inflight[w])
          /\ (/\ Took(w) /\ ~to_change[w] /\ lastOutcome[w] = "rejected"
              /\ IsSome(FamilyOf(w, Head(chan[w])))
              /\ FamilyText(w, Head(chan[w])) = content[w])
               => Ignored(w)]_vars

\* C16: no step of a Retrying worker changes update.content: the snapshot that
\* triggers the retry is taken without its address being adopted, whatever the
\* retry's outcome, and update.content changes only in a take by an Idle worker.
C16_RetryingKeepsContent ==
    [][\A w \in Workers :
          /\ to_change[w] => content'[w] = content[w]
          /\ pc[w] = "retry_call" => content'[w] = content[w]
          /\ content'[w] # content[w]
               => (Took(w) /\ pc[w] = "recv" /\ ~to_change[w])]_vars

\* a retry has succeeded on a snapshot that carries another address than the
\* one retried, and the worker is Idle again with the retried content
C16_Witness ==
    \E w \in Workers :
        /\ lastStep[w] = "retry" /\ lastOutcome[w] = "success"
        /\ pc[w] = "recv" /\ ~to_change[w]
        /\ TookLatest(w)
        /\ IsSome(FamilyOf(w, addrs))
        /\ FamilyText(w, addrs) # content[w]
        /\ accepted[w] = Some(content[w])

\* C17: every channel buffers at most one snapshot its worker has not taken,
\* and the distributor's send waits only at a worker whose slot holds one.
C17_OneSlotAndBlockedOnlyOnFullSlot ==
    /\ \A w \in Workers : Len(chan[w]) <= 1
    /\ (mainpc = "send" /\ sendIdx <= Len(chan) /\ ~ENABLED SendOne)
         => (Live(sendIdx) /\ Len(chan[sendIdx]) = 1)

\* the distributor waits with a new snapshot at a worker that is busy with a
\* provider call and has the previous snapshot in its slot
C17_Witness ==
    /\ mainpc = "send" /\ sendIdx <= Len(chan)
    /\ pc[sendIdx] \in {"retry_call", "change_call"}
    /\ Len(chan[sendIdx]) = 1
    /\ chan[sendIdx][1].seq = addrs.seq - 1
    /\ ~ENABLED SendOne

\* worker w is Idle and has just taken the latest snapshot, which carries the
\* address it holds in update.content: as long as the snapshots carry that
\* address it issues no further do_update call
Settled(w) ==
    /\ pc[w] = "recv" /\ ~to_change[w]
    /\ lastStep[w] = "same"
    /\ TookLatest(w)
    /\ IsSome(FamilyOf(w, addrs))
    /\ FamilyText(w, addrs) = content[w]

\* C18: convergence. A live worker that has settled on the address a the
\* snapshots carry (so that it makes no further call while they carry a) is
\* Idle with update.content = a, and a is the content the provider last
\* accepted for its record.
C18_SettledMeansAccepted ==
    \A w \in Workers : Settled(w) => accepted[w] = Some(content[w])

\* the zone of worker w
ZoneOf(w) == CHOOSE i \in 1..Len(Domains) : Domains[i].zone_id = task[w].zone_id

\* C19: the identifier a worker pushes updates to is the identifier of a
\* record of the provider's response whose name is the entry's name and whose
\* kind is the entry's kind.
C19_PushedIdHasEntryNameAndKind ==
    \A w \in Workers :
        ncalls[w] >= 1 =>
            \E k \in 1..Len(responses[ZoneOf(w)].result) :
                LET r == responses[ZoneOf(w)].result[k]
                IN  /\ r.id = task[w].id
                    /\ r.name = task[w].entry.name
                    /\ r.record_type = task[w].entry.record_type

\* C20: a live worker has taken at least all but two of the snapshots produced
\* so far, so two live workers are at most two snapshots apart.
C20_BoundedLag ==
    /\ \A w \in Workers : Live(w) => Len(recvd[w]) >= produced - 2
    /\ \A w, v \in Workers :
           (Live(w) /\ Live(v)) => Len(recvd[w]) - Len(recvd[v]) <= 2

\* a worker busy with a provider call is two snapshots behind another one: one
\* snapshot waits in its slot and the distributor waits at it with the next
C20_Witness ==
    \E w, v \in Workers :
        /\ pc[w] \in {"retry_call", "change_call"}
        /\ Len(recvd[w]) = produced - 2
        /\ Len(chan[w]) = 1
        /\ mainpc = "send" /\ sendIdx = w
        /\ Live(v) /\ Len(recvd[v]) = produced

====
